---- MODULE Spec2Model ----
(***************************************************************************)
(* The controller-input pipeline of the useController hook                 *)
(* (src/src/hooks/useMidiController.ts, and its verbose variant in        *)
(* src/src/components/UC33eController.tsx): Web MIDI access request, port  *)
(* hot-plug notifications, per-port message handlers, the single-slot      *)
(* midiMessage state, the useDebounce timer, the decode / transform        *)
(* effect and the reducer.                                                 *)
(*                                                                         *)
(* Numbers that are floats in the source are kept in thousandths (the      *)
(* source quantizes the raw value to 3 decimals): 1000 stands for 1.0.     *)
(* A message is identified by its position in the arrival log, because     *)
(* every MIDIMessageEvent is a distinct object; 0 stands for null.         *)
(* Time is counted in ticks of the event loop's clock.                     *)
(***************************************************************************)
EXTENDS Integers, Sequences, FiniteSets, TLC

VARIABLES
    variant,            \* "compact" (hooks/useMidiController.ts) or "verbose" (components/UC33eController.tsx)
    debounceTime,       \* the hook's debounceTime option, in ticks
    valueTransformers,  \* the hook's valueTransformers option
    access,             \* requestMIDIAccess promise: "pending", "granted" (then ran), "denied" (catch ran)
    requests,           \* number of requestMIDIAccess calls made by the session
    inputs,             \* midiAccess.inputs: the ports the subsystem enumerates, in map order
    connection,         \* MIDIPort.connection of every port object
    onmidimessage,      \* the port objects whose onmidimessage is the session's handler
    onstatechange,      \* whether midiAccess.onstatechange is set
    opening,            \* the port objects with an implicit open() in flight
    events,             \* MIDIConnectionEvents dispatched and not yet handled
    midiInputs,         \* the effect's closure variable midiInputs
    teardowns,          \* how many times the effect's cleanup function has run
    status,             \* React state: status
    connectedDevices,   \* React state: connectedDevices
    state,              \* React reducer state: control identifier -> value
    midiMessage,        \* React state: midiMessage
    debouncedMessage,   \* useDebounce's debouncedValue
    debounceDep,        \* the value useDebounce's effect last ran for
    timer,              \* useDebounce's pending setTimeout
    processedDep,       \* the debouncedMessage the processing effect last ran for
    arrivals,           \* log: payload of every message a handler received
    age,                \* log: ticks since each arrival, capped at debounceTime
    superseded,         \* log: messages followed by another arrival in less than debounceTime
    delivered,          \* log: messages handed to the decode/transform effect
    previousState,      \* the state object a consumer received before the latest dispatch
    dispatches,         \* dispatches made for the message the processing effect last ran for
    used                \* number of inputs the environment has given so far

vars == <<variant, debounceTime, valueTransformers, access, requests, inputs,
          connection, onmidimessage, onstatechange, opening, events, midiInputs,
          teardowns, status, connectedDevices, state, midiMessage,
          debouncedMessage, debounceDep, timer, processedDep, arrivals,
          age, superseded, delivered, previousState, dispatches, used>>

(***************************************************************************)
(* Bounds                                                                  *)
(***************************************************************************)
MaxInputs == 2
MaxTeardowns == 2
MaxDispatches == 2

Window == 2
DebounceTimes == {0, Window}
Variants == {"compact", "verbose"}
Ports == {"p1", "p2"}
Velocities == {64, 127}
MaxVelocity == 127

NoTimer == [msg |-> -1, remaining |-> 0]
NoMapping == "undefined"
NullData == <<>>

(***************************************************************************)
(* The hardware profile and the pure functions                             *)
(***************************************************************************)
u33e ==
    (13 :> (176 :> "C26" @@ 177 :> "C27" @@ 178 :> "C28" @@ 179 :> "C29" @@
            180 :> "C30" @@ 181 :> "C31" @@ 182 :> "C31" @@ 183 :> "C33")) @@
    (12 :> (176 :> "C18" @@ 177 :> "C19" @@ 178 :> "C20" @@ 179 :> "C21" @@
            180 :> "C22" @@ 181 :> "C23" @@ 182 :> "C24" @@ 183 :> "C25")) @@
    (10 :> (176 :> "C10" @@ 177 :> "C11" @@ 178 :> "C12" @@ 179 :> "C13" @@
            180 :> "C14" @@ 181 :> "C15" @@ 182 :> "C16" @@ 183 :> "C17")) @@
    (7  :> (176 :> "F1" @@ 177 :> "F2" @@ 178 :> "F3" @@ 179 :> "F4" @@
            180 :> "F5" @@ 181 :> "F6" @@ 182 :> "F7" @@ 183 :> "F8")) @@
    (28 :> (176 :> "F9"))

\* controllers[note]?.[command]
controllerLookup(controllers, note, command) ==
    IF note \in DOMAIN controllers /\ command \in DOMAIN controllers[note]
    THEN controllers[note][command]
    ELSE NoMapping

\* Math.round(a / b): the nearest integer, halves towards +infinity
MathRound(a, b) ==
    IF b > 0 THEN (2 * a + b) \div (2 * b)
    ELSE (0 - 2 * a - b) \div (0 - 2 * b)

\* faulty variant: Math.floor in place of Math.round
rawValueOfFloor(velocity) == (velocity * 1000) \div 127

\* Math.round((velocity / 127) * 1000) / 1000, in thousandths
rawValueOf(velocity) == MathRound(velocity * 1000, 127)

\* log10(1 + 9v) and (e^v - 1)/(e - 1) to the nearest thousandth, for every
\* v from 0.000 to 1.000: entry v + 1 of the tuple belongs to v thousandths
LogThousandths ==
    <<0, 4, 8, 12, 15, 19, 23, 27, 30, 34, 37, 41, 45, 48, 52, 55,
      58, 62, 65, 69, 72, 75, 78, 82, 85, 88, 91, 94, 98, 101, 104, 107,
      110, 113, 116, 119, 122, 125, 128, 131, 134, 136, 139, 142, 145, 148, 150, 153,
      156, 159, 161, 164, 167, 169, 172, 175, 177, 180, 182, 185, 188, 190, 193, 195,
      198, 200, 202, 205, 207, 210, 212, 215, 217, 219, 222, 224, 226, 229, 231, 233,
      236, 238, 240, 242, 245, 247, 249, 251, 253, 256, 258, 260, 262, 264, 266, 268,
      270, 273, 275, 277, 279, 281, 283, 285, 287, 289, 291, 293, 295, 297, 299, 301,
      303, 305, 307, 309, 310, 312, 314, 316, 318, 320, 322, 324, 326, 327, 329, 331,
      333, 335, 336, 338, 340, 342, 344, 345, 347, 349, 351, 352, 354, 356, 358, 359,
      361, 363, 364, 366, 368, 369, 371, 373, 374, 376, 378, 379, 381, 383, 384, 386,
      387, 389, 391, 392, 394, 395, 397, 398, 400, 402, 403, 405, 406, 408, 409, 411,
      412, 414, 415, 417, 418, 420, 421, 423, 424, 426, 427, 429, 430, 432, 433, 434,
      436, 437, 439, 440, 442, 443, 444, 446, 447, 449, 450, 451, 453, 454, 455, 457,
      458, 460, 461, 462, 464, 465, 466, 468, 469, 470, 472, 473, 474, 476, 477, 478,
      479, 481, 482, 483, 485, 486, 487, 488, 490, 491, 492, 493, 495, 496, 497, 498,
      500, 501, 502, 503, 505, 506, 507, 508, 509, 511, 512, 513, 514, 515, 517, 518,
      519, 520, 521, 523, 524, 525, 526, 527, 528, 530, 531, 532, 533, 534, 535, 536,
      538, 539, 540, 541, 542, 543, 544, 545, 547, 548, 549, 550, 551, 552, 553, 554,
      555, 556, 558, 559, 560, 561, 562, 563, 564, 565, 566, 567, 568, 569, 570, 571,
      572, 573, 574, 576, 577, 578, 579, 580, 581, 582, 583, 584, 585, 586, 587, 588,
      589, 590, 591, 592, 593, 594, 595, 596, 597, 598, 599, 600, 601, 602, 603, 604,
      605, 606, 607, 608, 609, 609, 610, 611, 612, 613, 614, 615, 616, 617, 618, 619,
      620, 621, 622, 623, 624, 625, 626, 626, 627, 628, 629, 630, 631, 632, 633, 634,
      635, 636, 636, 637, 638, 639, 640, 641, 642, 643, 644, 645, 645, 646, 647, 648,
      649, 650, 651, 652, 652, 653, 654, 655, 656, 657, 658, 658, 659, 660, 661, 662,
      663, 664, 664, 665, 666, 667, 668, 669, 670, 670, 671, 672, 673, 674, 674, 675,
      676, 677, 678, 679, 679, 680, 681, 682, 683, 683, 684, 685, 686, 687, 688, 688,
      689, 690, 691, 692, 692, 693, 694, 695, 695, 696, 697, 698, 699, 699, 700, 701,
      702, 703, 703, 704, 705, 706, 706, 707, 708, 709, 709, 710, 711, 712, 712, 713,
      714, 715, 716, 716, 717, 718, 719, 719, 720, 721, 721, 722, 723, 724, 724, 725,
      726, 727, 727, 728, 729, 730, 730, 731, 732, 732, 733, 734, 735, 735, 736, 737,
      738, 738, 739, 740, 740, 741, 742, 742, 743, 744, 745, 745, 746, 747, 747, 748,
      749, 750, 750, 751, 752, 752, 753, 754, 754, 755, 756, 756, 757, 758, 758, 759,
      760, 760, 761, 762, 763, 763, 764, 765, 765, 766, 767, 767, 768, 769, 769, 770,
      771, 771, 772, 773, 773, 774, 775, 775, 776, 776, 777, 778, 778, 779, 780, 780,
      781, 782, 782, 783, 784, 784, 785, 786, 786, 787, 787, 788, 789, 789, 790, 791,
      791, 792, 793, 793, 794, 794, 795, 796, 796, 797, 798, 798, 799, 799, 800, 801,
      801, 802, 803, 803, 804, 804, 805, 806, 806, 807, 807, 808, 809, 809, 810, 810,
      811, 812, 812, 813, 813, 814, 815, 815, 816, 816, 817, 818, 818, 819, 819, 820,
      821, 821, 822, 822, 823, 824, 824, 825, 825, 826, 826, 827, 828, 828, 829, 829,
      830, 831, 831, 832, 832, 833, 833, 834, 835, 835, 836, 836, 837, 837, 838, 839,
      839, 840, 840, 841, 841, 842, 842, 843, 844, 844, 845, 845, 846, 846, 847, 848,
      848, 849, 849, 850, 850, 851, 851, 852, 852, 853, 854, 854, 855, 855, 856, 856,
      857, 857, 858, 858, 859, 860, 860, 861, 861, 862, 862, 863, 863, 864, 864, 865,
      865, 866, 867, 867, 868, 868, 869, 869, 870, 870, 871, 871, 872, 872, 873, 873,
      874, 874, 875, 875, 876, 877, 877, 878, 878, 879, 879, 880, 880, 881, 881, 882,
      882, 883, 883, 884, 884, 885, 885, 886, 886, 887, 887, 888, 888, 889, 889, 890,
      890, 891, 891, 892, 892, 893, 893, 894, 894, 895, 895, 896, 896, 897, 897, 898,
      898, 899, 899, 900, 900, 901, 901, 902, 902, 903, 903, 904, 904, 905, 905, 906,
      906, 907, 907, 908, 908, 909, 909, 910, 910, 910, 911, 911, 912, 912, 913, 913,
      914, 914, 915, 915, 916, 916, 917, 917, 918, 918, 919, 919, 919, 920, 920, 921,
      921, 922, 922, 923, 923, 924, 924, 925, 925, 926, 926, 926, 927, 927, 928, 928,
      929, 929, 930, 930, 931, 931, 932, 932, 932, 933, 933, 934, 934, 935, 935, 936,
      936, 937, 937, 937, 938, 938, 939, 939, 940, 940, 941, 941, 942, 942, 942, 943,
      943, 944, 944, 945, 945, 946, 946, 946, 947, 947, 948, 948, 949, 949, 949, 950,
      950, 951, 951, 952, 952, 953, 953, 953, 954, 954, 955, 955, 956, 956, 956, 957,
      957, 958, 958, 959, 959, 959, 960, 960, 961, 961, 962, 962, 962, 963, 963, 964,
      964, 965, 965, 965, 966, 966, 967, 967, 968, 968, 968, 969, 969, 970, 970, 970,
      971, 971, 972, 972, 973, 973, 973, 974, 974, 975, 975, 975, 976, 976, 977, 977,
      978, 978, 978, 979, 979, 980, 980, 980, 981, 981, 982, 982, 982, 983, 983, 984,
      984, 984, 985, 985, 986, 986, 987, 987, 987, 988, 988, 989, 989, 989, 990, 990,
      991, 991, 991, 992, 992, 993, 993, 993, 994, 994, 994, 995, 995, 996, 996, 996,
      997, 997, 998, 998, 998, 999, 999, 1000, 1000>>

ExpThousandths ==
    <<0, 1, 1, 2, 2, 3, 4, 4, 5, 5, 6, 6, 7, 8, 8, 9,
      9, 10, 11, 11, 12, 12, 13, 14, 14, 15, 15, 16, 17, 17, 18, 18,
      19, 20, 20, 21, 21, 22, 23, 23, 24, 24, 25, 26, 26, 27, 27, 28,
      29, 29, 30, 30, 31, 32, 32, 33, 34, 34, 35, 35, 36, 37, 37, 38,
      38, 39, 40, 40, 41, 42, 42, 43, 43, 44, 45, 45, 46, 47, 47, 48,
      48, 49, 50, 50, 51, 52, 52, 53, 54, 54, 55, 55, 56, 57, 57, 58,
      59, 59, 60, 61, 61, 62, 62, 63, 64, 64, 65, 66, 66, 67, 68, 68,
      69, 70, 70, 71, 72, 72, 73, 74, 74, 75, 76, 76, 77, 77, 78, 79,
      79, 80, 81, 81, 82, 83, 83, 84, 85, 85, 86, 87, 87, 88, 89, 89,
      90, 91, 91, 92, 93, 94, 94, 95, 96, 96, 97, 98, 98, 99, 100, 100,
      101, 102, 102, 103, 104, 104, 105, 106, 106, 107, 108, 109, 109, 110, 111, 111,
      112, 113, 113, 114, 115, 115, 116, 117, 118, 118, 119, 120, 120, 121, 122, 122,
      123, 124, 125, 125, 126, 127, 127, 128, 129, 130, 130, 131, 132, 132, 133, 134,
      135, 135, 136, 137, 137, 138, 139, 140, 140, 141, 142, 142, 143, 144, 145, 145,
      146, 147, 148, 148, 149, 150, 150, 151, 152, 153, 153, 154, 155, 156, 156, 157,
      158, 159, 159, 160, 161, 162, 162, 163, 164, 165, 165, 166, 167, 168, 168, 169,
      170, 171, 171, 172, 173, 174, 174, 175, 176, 177, 177, 178, 179, 180, 180, 181,
      182, 183, 183, 184, 185, 186, 187, 187, 188, 189, 190, 190, 191, 192, 193, 193,
      194, 195, 196, 197, 197, 198, 199, 200, 200, 201, 202, 203, 204, 204, 205, 206,
      207, 208, 208, 209, 210, 211, 212, 212, 213, 214, 215, 215, 216, 217, 218, 219,
      219, 220, 221, 222, 223, 223, 224, 225, 226, 227, 228, 228, 229, 230, 231, 232,
      232, 233, 234, 235, 236, 236, 237, 238, 239, 240, 241, 241, 242, 243, 244, 245,
      246, 246, 247, 248, 249, 250, 251, 251, 252, 253, 254, 255, 256, 256, 257, 258,
      259, 260, 261, 261, 262, 263, 264, 265, 266, 266, 267, 268, 269, 270, 271, 272,
      272, 273, 274, 275, 276, 277, 278, 278, 279, 280, 281, 282, 283, 284, 284, 285,
      286, 287, 288, 289, 290, 291, 291, 292, 293, 294, 295, 296, 297, 298, 298, 299,
      300, 301, 302, 303, 304, 305, 306, 306, 307, 308, 309, 310, 311, 312, 313, 314,
      314, 315, 316, 317, 318, 319, 320, 321, 322, 323, 323, 324, 325, 326, 327, 328,
      329, 330, 331, 332, 333, 333, 334, 335, 336, 337, 338, 339, 340, 341, 342, 343,
      344, 345, 345, 346, 347, 348, 349, 350, 351, 352, 353, 354, 355, 356, 357, 358,
      359, 359, 360, 361, 362, 363, 364, 365, 366, 367, 368, 369, 370, 371, 372, 373,
      374, 375, 376, 377, 378, 379, 379, 380, 381, 382, 383, 384, 385, 386, 387, 388,
      389, 390, 391, 392, 393, 394, 395, 396, 397, 398, 399, 400, 401, 402, 403, 404,
      405, 406, 407, 408, 409, 410, 411, 412, 413, 414, 415, 416, 417, 418, 419, 420,
      421, 422, 423, 424, 425, 426, 427, 428, 429, 430, 431, 432, 433, 434, 435, 436,
      437, 438, 439, 440, 441, 442, 443, 444, 445, 446, 447, 448, 449, 450, 451, 452,
      453, 454, 455, 456, 457, 458, 460, 461, 462, 463, 464, 465, 466, 467, 468, 469,
      470, 471, 472, 473, 474, 475, 476, 477, 478, 480, 481, 482, 483, 484, 485, 486,
      487, 488, 489, 490, 491, 492, 493, 494, 496, 497, 498, 499, 500, 501, 502, 503,
      504, 505, 506, 507, 509, 510, 511, 512, 513, 514, 515, 516, 517, 518, 520, 521,
      522, 523, 524, 525, 526, 527, 528, 529, 531, 532, 533, 534, 535, 536, 537, 538,
      540, 541, 542, 543, 544, 545, 546, 547, 549, 550, 551, 552, 553, 554, 555, 556,
      558, 559, 560, 561, 562, 563, 564, 566, 567, 568, 569, 570, 571, 573, 574, 575,
      576, 577, 578, 579, 581, 582, 583, 584, 585, 586, 588, 589, 590, 591, 592, 594,
      595, 596, 597, 598, 599, 601, 602, 603, 604, 605, 607, 608, 609, 610, 611, 612,
      614, 615, 616, 617, 618, 620, 621, 622, 623, 624, 626, 627, 628, 629, 631, 632,
      633, 634, 635, 637, 638, 639, 640, 641, 643, 644, 645, 646, 648, 649, 650, 651,
      653, 654, 655, 656, 657, 659, 660, 661, 662, 664, 665, 666, 667, 669, 670, 671,
      672, 674, 675, 676, 677, 679, 680, 681, 683, 684, 685, 686, 688, 689, 690, 691,
      693, 694, 695, 697, 698, 699, 700, 702, 703, 704, 705, 707, 708, 709, 711, 712,
      713, 715, 716, 717, 718, 720, 721, 722, 724, 725, 726, 728, 729, 730, 731, 733,
      734, 735, 737, 738, 739, 741, 742, 743, 745, 746, 747, 749, 750, 751, 753, 754,
      755, 757, 758, 759, 761, 762, 763, 765, 766, 767, 769, 770, 771, 773, 774, 776,
      777, 778, 780, 781, 782, 784, 785, 786, 788, 789, 791, 792, 793, 795, 796, 797,
      799, 800, 802, 803, 804, 806, 807, 809, 810, 811, 813, 814, 816, 817, 818, 820,
      821, 823, 824, 825, 827, 828, 830, 831, 832, 834, 835, 837, 838, 839, 841, 842,
      844, 845, 847, 848, 849, 851, 852, 854, 855, 857, 858, 860, 861, 862, 864, 865,
      867, 868, 870, 871, 873, 874, 875, 877, 878, 880, 881, 883, 884, 886, 887, 889,
      890, 892, 893, 895, 896, 897, 899, 900, 902, 903, 905, 906, 908, 909, 911, 912,
      914, 915, 917, 918, 920, 921, 923, 924, 926, 927, 929, 930, 932, 933, 935, 936,
      938, 939, 941, 943, 944, 946, 947, 949, 950, 952, 953, 955, 956, 958, 959, 961,
      962, 964, 966, 967, 969, 970, 972, 973, 975, 976, 978, 980, 981, 983, 984, 986,
      987, 989, 991, 992, 994, 995, 997, 998, 1000>>

LogTable == [v \in 0..1000 |-> LogThousandths[v + 1]]
ExpTable == [v \in 0..1000 |-> ExpThousandths[v + 1]]

applyCurve(value, curve) ==
    IF curve = "logarithmic" THEN LogTable[value]
    ELSE IF curve = "exponential" THEN ExpTable[value]
    ELSE value

\* A transformer after destructuring with its defaults; min and max are whole
\* numbers, step is in thousandths and 0 stands for "no step"
Transformer(min, max, curve, step, invert) ==
    [min |-> min, max |-> max, curve |-> curve, step |-> step, invert |-> invert]

\* faulty variant: the range mapping scales by max in place of max - min
transformValueScaleByMax(transformers, controller, rawValue) ==
    IF controller \notin DOMAIN transformers THEN rawValue
    ELSE LET t == transformers[controller]
             v1 == IF t.invert THEN 1000 - rawValue ELSE rawValue
             v2 == applyCurve(v1, t.curve)
             v3 == t.min * 1000 + t.max * v2
         IN  IF t.step # 0 THEN MathRound(v3, t.step) * t.step ELSE v3

transformValue(transformers, controller, rawValue) ==
    IF controller \notin DOMAIN transformers THEN rawValue
    ELSE LET t == transformers[controller]
             v1 == IF t.invert THEN 1000 - rawValue ELSE rawValue
             v2 == applyCurve(v1, t.curve)
             v3 == t.min * 1000 + (t.max - t.min) * v2
         IN  IF t.step # 0 THEN MathRound(v3, t.step) * t.step ELSE v3

\* faulty variant: the reducer without the spread of the previous state
reducerNoSpread(s, action) ==
    [k \in {action.controller} |-> action.value]

reducer(s, action) ==
    [k \in DOMAIN s \cup {action.controller} |->
        IF k = action.controller THEN action.value ELSE s[k]]

\* faulty variant: the reducer assigns into the object it was given
reducerArgumentInPlace(s, action) == reducer(s, action)

\* the object passed as the previous state, as it is once the reducer has
\* returned: the spread copies out of it and nothing is assigned into it
reducerArgument(s, action) == s

(***************************************************************************)
(* The session                                                             *)
(***************************************************************************)
PortName == ("p1" :> "UC-33 USB MIDI Controller" @@ "p2" :> "")
PortManufacturer == ("p1" :> "Evolution" @@ "p2" :> "")

Range(s) == {s[i] : i \in 1..Len(s)}
Remove(s, p) == SelectSeq(s, LAMBDA x : x # p)

DeviceInfo(p, conn) ==
    [id |-> p,
     name |-> IF PortName[p] = "" THEN "Unknown Device" ELSE PortName[p],
     manufacturer |-> IF PortManufacturer[p] = "" THEN "Unknown Manufacturer"
                      ELSE PortManufacturer[p],
     connection |-> conn[p]]

\* faulty variant: lists only the ports that are open
updateDevicesOpenOnly(ins, conn) ==
    LET open == SelectSeq(ins, LAMBDA p : conn[p] = "open")
    IN  [i \in 1..Len(open) |-> DeviceInfo(open[i], conn)]

\* Array.from(midiAccess.inputs.values()).map(...)
updateDevices(ins, conn) == [i \in 1..Len(ins) |-> DeviceInfo(ins[i], conn)]

\* event.port.state === 'connected' ? 'connected' : 'disconnected'
statusOnStateChange(event) ==
    IF event.state = "connected" THEN "connected" ELSE "disconnected"

\* faulty variant: a denied request reported as a mere disconnection
statusOnDeniedAsDisconnected == "disconnected"

\* the status the catch branch of the access request sets
statusOnDenied == "error"

\* midiInputs.forEach((input) => { input.onmidimessage = null })
cleanup(handlers, captured) == handlers \ captured

\* midiInputs.forEach((input) => { input.onmidimessage = onMIDIMessage })
subscribe(handlers, captured) == handlers \cup captured

TransformerConfigs ==
    { <<>>,
      ("C26" :> Transformer(0, 2, "linear", 0, TRUE)) }

Payloads ==
    {<<176, 13, v>> : v \in Velocities}
        \cup {<<183, 13, 64>>, <<176, 14, 64>>, NullData}

unmounted == teardowns > 0

\* the session after the first render, before any effect callback has run
InitSession ==
    /\ access = "pending"
    /\ requests = 1
    /\ inputs = <<"p1">>
    /\ connection = [p \in Ports |-> "closed"]
    /\ onmidimessage = {}
    /\ onstatechange = FALSE
    /\ opening = {}
    /\ events = <<>>
    /\ midiInputs = {}
    /\ teardowns = 0
    /\ status = "disconnected"
    /\ connectedDevices = <<>>
    /\ state = <<>>
    /\ midiMessage = 0
    /\ debouncedMessage = 0
    /\ debounceDep = 0
    /\ timer = [msg |-> 0, remaining |-> debounceTime]
    /\ processedDep = 0
    /\ arrivals = <<>>
    /\ age = <<>>
    /\ superseded = {}
    /\ delivered = <<>>
    /\ previousState = <<>>
    /\ dispatches = 0
    /\ used = 0

Init ==
    /\ variant \in Variants
    /\ debounceTime \in DebounceTimes
    /\ valueTransformers \in TransformerConfigs
    /\ InitSession

pipelineVars == <<state, midiMessage, debouncedMessage, debounceDep, timer,
                  processedDep, arrivals, age, superseded, delivered,
                  previousState, dispatches>>
configVars == <<variant, debounceTime, valueTransformers, requests>>
hwVars == <<inputs, connection, opening, events, used>>

\* .then((midiAccess) => { ... })
AccessGranted ==
    /\ access = "pending"
    /\ access' = "granted"
    /\ status' = "connected"
    /\ connectedDevices' = updateDevices(inputs, connection)
    /\ onstatechange' = TRUE
    /\ midiInputs' = Range(inputs)
    /\ onmidimessage' = subscribe(onmidimessage, Range(inputs))
    /\ opening' = opening \cup {p \in Range(inputs) : connection[p] # "open"}
    /\ UNCHANGED <<configVars, pipelineVars, inputs, connection, events,
                   used, teardowns>>

\* .catch(() => { ... })
AccessDenied ==
    /\ access = "pending"
    /\ access' = "denied"
    /\ status' = statusOnDenied
    /\ UNCHANGED <<configVars, pipelineVars, hwVars, onmidimessage,
                   onstatechange, midiInputs, teardowns, connectedDevices>>

\* the subsystem attaches port p
HwConnect(p) ==
    /\ used < MaxInputs
    /\ p \notin Range(inputs)
    /\ used' = used + 1
    /\ inputs' = Append(inputs, p)
    /\ connection' = [connection EXCEPT ![p] = IF @ = "pending" THEN "open" ELSE @]
    /\ events' = IF onstatechange
                 THEN Append(events, [port |-> p, state |-> "connected"])
                 ELSE events
    /\ UNCHANGED <<configVars, pipelineVars, access, onmidimessage, onstatechange,
                   opening, midiInputs, teardowns, status, connectedDevices>>

\* the subsystem detaches port p
HwDisconnect(p) ==
    /\ used < MaxInputs
    /\ p \in Range(inputs)
    /\ used' = used + 1
    /\ inputs' = Remove(inputs, p)
    /\ connection' = [connection EXCEPT ![p] = IF @ = "open" THEN "pending" ELSE @]
    /\ events' = IF onstatechange
                 THEN Append(events, [port |-> p, state |-> "disconnected"])
                 ELSE events
    /\ UNCHANGED <<configVars, pipelineVars, access, onmidimessage, onstatechange,
                   opening, midiInputs, teardowns, status, connectedDevices>>

\* the implicit open() started by assigning onmidimessage completes
PortOpened(p) ==
    /\ p \in opening
    /\ opening' = opening \ {p}
    /\ IF p \in Range(inputs)
       THEN /\ connection' = [connection EXCEPT ![p] = "open"]
            /\ events' = Append(events, [port |-> p, state |-> "connected"])
       ELSE UNCHANGED <<connection, events>>
    /\ UNCHANGED <<configVars, pipelineVars, access, inputs, used,
                   onmidimessage, onstatechange, midiInputs, teardowns, status,
                   connectedDevices>>

\* midiAccess.onstatechange = (event) => { ... }
StateChange ==
    /\ events # <<>>
    /\ onstatechange
    /\ events' = Tail(events)
    /\ status' = statusOnStateChange(Head(events))
    /\ connectedDevices' = updateDevices(inputs, connection)
    /\ UNCHANGED <<configVars, pipelineVars, access, inputs, connection, opening,
                   used, onmidimessage, onstatechange, midiInputs, teardowns>>

\* input.onmidimessage fires: onMIDIMessage(message) { setMidiMessage(message) }
onMIDIMessage(p, payload) ==
    /\ used < MaxInputs
    /\ used' = used + 1
    /\ p \in onmidimessage
    /\ p \in Range(inputs)
    /\ connection[p] = "open"
    /\ arrivals' = Append(arrivals, payload)
    /\ age' = Append(age, 0)
    /\ superseded' = IF Len(arrivals) > 0 /\ age[Len(age)] < debounceTime
                     THEN superseded \cup {Len(arrivals)}
                     ELSE superseded
    /\ midiMessage' = Len(arrivals) + 1
    /\ UNCHANGED <<configVars, inputs, connection, opening, events, access, onmidimessage, onstatechange,
                   midiInputs, teardowns, status, connectedDevices, state,
                   debouncedMessage, debounceDep, timer, processedDep, delivered,
                   previousState, dispatches>>

\* one tick of the clock
Tick ==
    /\ ~unmounted
    /\ \/ timer # NoTimer /\ timer.remaining > 0
       \/ \E i \in 1..Len(age) : age[i] < debounceTime
    /\ timer' = IF timer # NoTimer /\ timer.remaining > 0
                THEN [timer EXCEPT !.remaining = @ - 1]
                ELSE timer
    /\ age' = [i \in 1..Len(age) |->
                 IF age[i] < debounceTime THEN age[i] + 1 ELSE age[i]]
    /\ UNCHANGED <<configVars, hwVars, access, onmidimessage, onstatechange,
                   midiInputs, teardowns, status, connectedDevices, state,
                   midiMessage, debouncedMessage, debounceDep, processedDep,
                   arrivals, superseded, delivered, previousState, dispatches>>

\* useDebounce's setTimeout callback: setDebouncedValue(value)
TimerFire ==
    /\ timer # NoTimer
    /\ timer.remaining = 0
    /\ debouncedMessage' = timer.msg
    /\ timer' = NoTimer
    /\ UNCHANGED <<configVars, hwVars, access, onmidimessage, onstatechange,
                   midiInputs, teardowns, status, connectedDevices, state,
                   midiMessage, debounceDep, processedDep, arrivals, age,
                   superseded, delivered, previousState, dispatches>>

\* faulty variant: the processing effect without the if (controllerMap) guard
processMessageNoGuard(transformers, payload, st) ==
    IF payload = NullData
    THEN [state |-> st, previous |-> st, dispatched |-> FALSE, thrown |-> TRUE]
    ELSE LET controllerMap == controllerLookup(u33e, payload[2], payload[1])
             action == [controller |-> controllerMap,
                        value |-> transformValue(transformers, controllerMap,
                                                 rawValueOf(payload[3]))]
         IN  [state |-> reducer(st, action),
              previous |-> reducerArgument(st, action),
              dispatched |-> TRUE, thrown |-> FALSE]

\* the body of the processing effect for one non-null debounced message:
\* destructure, look up, quantize, transform, dispatch
processMessage(transformers, payload, st) ==
    IF payload = NullData
    THEN [state |-> st, previous |-> st, dispatched |-> FALSE, thrown |-> TRUE]
    ELSE LET command == payload[1]
             note == payload[2]
             velocity == payload[3]
             controllerMap == controllerLookup(u33e, note, command)
             action == [controller |-> controllerMap,
                        value |-> transformValue(transformers, controllerMap,
                                                 rawValueOf(velocity))]
         IN  IF controllerMap # NoMapping
             THEN [state |-> reducer(st, action),
                   previous |-> reducerArgument(st, action),
                   dispatched |-> TRUE, thrown |-> FALSE]
             ELSE [state |-> st, previous |-> st,
                   dispatched |-> FALSE, thrown |-> FALSE]

\* whether the processing effect's dependencies changed since the last render:
\* the compact hook memoizes transformValue on JSON.stringify(valueTransformers),
\* the verbose one on the valueTransformers object, which is a fresh {} on
\* every render when the option is omitted
processingDepsChanged ==
    \/ debouncedMessage # processedDep
    \/ variant = "verbose" /\ DOMAIN valueTransformers = {}

\* a re-render of the component and the effects it flushes, in declaration
\* order: useDebounce's effect, then the processing effect
Render ==
    /\ ~unmounted
    /\ LET runDebounce == midiMessage # debounceDep
           runProcess == processingDepsChanged /\ debouncedMessage # 0
           out == IF runProcess
                  THEN processMessage(valueTransformers,
                                      arrivals[debouncedMessage], state)
                  ELSE [state |-> state, previous |-> state,
                        dispatched |-> FALSE, thrown |-> FALSE]
           crash == out.thrown /\ variant = "compact"
       IN  /\ debounceDep' = midiMessage
           /\ processedDep' = debouncedMessage
           /\ state' = out.state
           /\ previousState' = IF out.dispatched THEN out.previous
                               ELSE previousState
           /\ dispatches' =
                IF ~runProcess THEN dispatches
                ELSE IF debouncedMessage # processedDep
                THEN (IF out.dispatched THEN 1 ELSE 0)
                ELSE IF out.dispatched /\ dispatches < MaxDispatches
                THEN dispatches + 1
                ELSE dispatches
           /\ delivered' =
                IF runProcess /\ debouncedMessage # processedDep
                THEN Append(delivered,
                        [msg |-> debouncedMessage,
                         aged |-> age[debouncedMessage] >= debounceTime])
                ELSE delivered
           /\ status' = IF out.thrown /\ variant = "verbose" THEN "error" ELSE status
           \* an error thrown by an effect with no boundary unmounts the tree,
           \* which runs every effect's cleanup
           /\ timer' = IF crash THEN NoTimer
                       ELSE IF runDebounce
                       THEN [msg |-> midiMessage, remaining |-> debounceTime]
                       ELSE timer
           /\ teardowns' = IF crash THEN teardowns + 1 ELSE teardowns
           /\ onmidimessage' = IF crash THEN cleanup(onmidimessage, midiInputs)
                               ELSE onmidimessage
    /\ UNCHANGED <<configVars, hwVars, access, onstatechange, midiInputs,
                   connectedDevices, midiMessage, debouncedMessage, arrivals,
                   age, superseded>>

\* the cleanup of the initialisation effect; it first runs when the component
\* unmounts, together with the cleanup of useDebounce's effect (clearTimeout)
Teardown ==
    /\ teardowns < MaxTeardowns
    /\ used < MaxInputs
    /\ used' = used + 1
    /\ teardowns' = teardowns + 1
    /\ onmidimessage' = cleanup(onmidimessage, midiInputs)
    /\ timer' = IF unmounted THEN timer ELSE NoTimer
    /\ UNCHANGED <<configVars, inputs, connection, opening, events, access, onstatechange, midiInputs, status,
                   connectedDevices, state, midiMessage, debouncedMessage,
                   debounceDep, processedDep, arrivals, age, superseded,
                   delivered, previousState, dispatches>>

Next ==
    \/ AccessGranted
    \/ AccessDenied
    \/ \E p \in Ports : HwConnect(p)
    \/ \E p \in Ports : HwDisconnect(p)
    \/ \E p \in Ports : PortOpened(p)
    \/ StateChange
    \/ \E p \in Ports, payload \in Payloads : onMIDIMessage(p, payload)
    \/ Tick
    \/ TimerFire
    \/ Render
    \/ Teardown

Spec == Init /\ [][Next]_vars

\* One message of any velocity through the compact hook with no debounce
\* window: the specification the quantization is checked under
InitVelocity == Init /\ variant = "compact" /\ debounceTime = 0

ArriveVelocity ==
    /\ arrivals = <<>>
    /\ \E c \in {176, 183}, v \in 0..MaxVelocity :
           onMIDIMessage("p1", <<c, 13, v>>)

NextVelocity ==
    \/ AccessGranted
    \/ \E p \in Ports : PortOpened(p)
    \/ ArriveVelocity
    \/ TimerFire
    \/ Render

SpecVelocity == InitVelocity /\ [][NextVelocity]_vars

(***************************************************************************)
(* The shipped profile under every message the UC-33e can send: a session  *)
(* with no transformers and no debounce delay receives (status, data1)     *)
(* pairs of the five data1 rows of the table.                              *)
(***************************************************************************)
ProfileStatuses == 176..183
ProfileNotes == DOMAIN u33e

InitProfile ==
    Init /\ variant = "compact" /\ debounceTime = 0 /\ valueTransformers = <<>>

ArriveProfile ==
    \E c \in ProfileStatuses, n \in ProfileNotes :
        onMIDIMessage("p1", <<c, n, 64>>)

NextProfile ==
    \/ AccessGranted
    \/ \E p \in Ports : PortOpened(p)
    \/ ArriveProfile
    \/ TimerFire
    \/ Render

SpecProfile == InitProfile /\ [][NextProfile]_vars

(***************************************************************************)
(* The transform under every configuration shape the caller can pass for   *)
(* one control and every velocity byte.  The hook takes valueTransformers  *)
(* as given: min, max and step are any numbers.                            *)
(***************************************************************************)
TransformMins == {-1, 0, 1}
TransformMaxs == {0, 1, 2}
TransformSteps == {-250, 0, 250, 700}
Curves == {"linear", "logarithmic", "exponential"}

TransformConfigShapes ==
    { ("C26" :> Transformer(min, max, curve, step, invert)) :
        min \in TransformMins, max \in TransformMaxs, curve \in Curves,
        step \in TransformSteps, invert \in BOOLEAN }

InitTransform ==
    /\ valueTransformers \in TransformConfigShapes
    /\ variant = "compact"
    /\ debounceTime = 0
    /\ InitSession

ArriveTransform ==
    /\ arrivals = <<>>
    /\ \E v \in 0..MaxVelocity : onMIDIMessage("p1", <<176, 13, v>>)

NextTransform ==
    \/ AccessGranted
    \/ \E p \in Ports : PortOpened(p)
    \/ ArriveTransform
    \/ TimerFire
    \/ Render

SpecTransform == InitTransform /\ [][NextTransform]_vars

(***************************************************************************)
(* Reading the logs                                                        *)
(***************************************************************************)
\* the control identifier the shipped profile gives a payload, read off the
\* table itself
MappedId(payload) ==
    IF payload # NullData /\ payload[2] \in DOMAIN u33e
                          /\ payload[1] \in DOMAIN u33e[payload[2]]
    THEN u33e[payload[2]][payload[1]]
    ELSE NoMapping

IsUnmapped(payload) == payload # NullData /\ MappedId(payload) = NoMapping

\* this step hands a new message to the decode/transform effect
Delivering == delivered' # delivered

\* this step is the onstatechange handler taking the oldest notification
HandlingStateChange == events # <<>> /\ events' = Tail(events)

\* this step is the then-callback of the access request
Granting == access = "pending" /\ access' = "granted"

\* nothing is in flight in the debounce stage of a mounted session
Quiescent ==
    /\ ~unmounted
    /\ timer = NoTimer
    /\ debounceDep = midiMessage
    /\ processedDep = debouncedMessage

(***************************************************************************)
(* C1: once access is granted, a notification that a port was             *)
(* disconnected leaves status = connected.                                 *)
(***************************************************************************)
C1_DisconnectKeepsConnected ==
    [][(access = "granted" /\ status = "connected" /\ HandlingStateChange
            /\ Head(events).state = "disconnected")
        => status' = "connected"]_vars

(***************************************************************************)
(* C2: once teardown has begun no port has the session's message handler  *)
(* installed and no message reaches the handler, whatever the order of     *)
(* teardown and the outcome of the access request.                         *)
(***************************************************************************)
C2_NoHandlerAfterTeardown ==
    [][unmounted => (onmidimessage' = {} /\ arrivals' = arrivals)]_vars

(***************************************************************************)
(* C3: processing a delivered message whose (status, data1) pair has no    *)
(* entry in the controller map leaves the controller state, the connection *)
(* status and the device list exactly as they were.                        *)
(***************************************************************************)
C3_UnmappedLeavesState ==
    [][(Delivering /\ IsUnmapped(arrivals[debouncedMessage]))
        => (state' = state /\ status' = status
                /\ connectedDevices' = connectedDevices)]_vars

\* an unmapped message was processed after a mapped one had set a value
C3_Witness ==
    /\ Len(delivered) = 2
    /\ ~IsUnmapped(arrivals[delivered[1].msg])
    /\ IsUnmapped(arrivals[delivered[2].msg])
    /\ DOMAIN state # {}

(***************************************************************************)
(* C4: with a debounce window w > 0, of a burst of messages each arriving  *)
(* less than w after the previous one only the last is delivered to the    *)
(* decode/transform step, and only once w has elapsed since it arrived.    *)
(***************************************************************************)
C4_BurstDeliversOnlyLast ==
    debounceTime > 0 =>
        \A i \in 1..Len(delivered) :
            /\ delivered[i].msg \notin superseded
            /\ delivered[i].aged

(***************************************************************************)
(* C5: with debounce window 0 every message is delivered to the            *)
(* decode/transform step exactly once, in arrival order, also when several *)
(* messages arrive before the zero-delay timer callback has run.           *)
(***************************************************************************)
C5_ZeroWindowDeliversAll ==
    debounceTime = 0 =>
        /\ \A i, j \in 1..Len(delivered) :
               i < j => delivered[i].msg < delivered[j].msg
        /\ Quiescent => Len(delivered) = Len(arrivals)

(***************************************************************************)
(* C6: when the access request is denied or fails, status becomes error   *)
(* and stays error whatever happens later; the session issues no further   *)
(* request, and the controller state and the device list stay empty.       *)
(***************************************************************************)
C6_DeniedIsTerminal ==
    access = "denied" =>
        /\ status = "error"
        /\ requests = 1
        /\ state = <<>>
        /\ connectedDevices = <<>>

\* the request was denied, a second port was attached and the session was
\* torn down
C6_Witness ==
    /\ access = "denied"
    /\ Len(inputs) = 2
    /\ unmounted

(***************************************************************************)
(* C7: processing a message that is unmapped or that raises an exception   *)
(* during decode/transform never changes status, leaves the controller     *)
(* state at its previous value and does not end the session, in the        *)
(* compact hook and in the verbose variant alike.                          *)
(***************************************************************************)
C7_ProcessingNeverChangesStatus ==
    [][(Delivering /\ (IsUnmapped(arrivals[debouncedMessage])
                        \/ arrivals[debouncedMessage] = NullData))
        => (status' = status /\ state' = state /\ ~unmounted')]_vars

(***************************************************************************)
(* C8: right after access is granted and right after every port            *)
(* state-change notification is handled, connectedDevices is exactly the   *)
(* list of input ports the subsystem enumerates at that moment, one record *)
(* per port with its id, name, manufacturer and connection sub-state; a    *)
(* port that is no longer enumerated is absent.                            *)
(***************************************************************************)
C8_DevicesAreFullEnumeration ==
    [][(Granting \/ HandlingStateChange)
        => /\ Len(connectedDevices') = Len(inputs')
           /\ \A i \in 1..Len(inputs') :
                /\ connectedDevices'[i].id = inputs'[i]
                /\ connectedDevices'[i].connection = connection'[inputs'[i]]
                /\ connectedDevices'[i] = DeviceInfo(inputs'[i], connection')]_vars

\* the only listed device was unplugged and its notification handled: the
\* snapshot is empty
C8_Witness ==
    /\ access = "granted"
    /\ status = "disconnected"
    /\ events = <<>>
    /\ inputs = <<>>
    /\ connectedDevices = <<>>

(***************************************************************************)
(* C9: the key set of the controller state starts empty and only grows; a  *)
(* key is added only when a message mapped to that identifier is           *)
(* processed; every key maps to the value computed from the most recently  *)
(* processed message for that identifier.                                  *)
(***************************************************************************)
DeliveriesFor(k) ==
    {i \in 1..Len(delivered) : MappedId(arrivals[delivered[i].msg]) = k}

LastPayloadFor(k) ==
    LET last == CHOOSE i \in DeliveriesFor(k) :
                    \A j \in DeliveriesFor(k) : j <= i
    IN  arrivals[delivered[last].msg]

C9_KeysGrowValuesLatest ==
    /\ state = <<>>
    /\ [][/\ DOMAIN state \subseteq DOMAIN state'
          /\ \A k \in DOMAIN state' \ DOMAIN state :
                Delivering /\ k = MappedId(arrivals[debouncedMessage])]_vars
    /\ [](\A k \in DOMAIN state :
            /\ DeliveriesFor(k) # {}
            /\ state[k] = transformValue(valueTransformers, k,
                                         rawValueOf(LastPayloadFor(k)[3])))

\* C26 was written twice and holds the value of the second message
C9_Witness ==
    /\ Len(delivered) = 2
    /\ arrivals = <<<<176, 13, 127>>, <<176, 13, 64>>>>
    /\ valueTransformers = <<>>
    /\ state = ("C26" :> 504)

(***************************************************************************)
(* C10: with no value transformer configured for the control, processing   *)
(* a message (status, data1, velocity) mapped to id sets state[id] to      *)
(* round(velocity/127*1000)/1000 for every velocity in 0..127: the nearest *)
(* thousandth to velocity/127; (176, 13, 127) sets C26 = 1.0 and velocity  *)
(* 64 gives 0.504.                                                         *)
(***************************************************************************)
Abs(x) == IF x < 0 THEN -x ELSE x

C10_QuantizedRawValue ==
    [][(Delivering /\ MappedId(arrivals[debouncedMessage]) # NoMapping
            /\ MappedId(arrivals[debouncedMessage]) \notin DOMAIN valueTransformers)
        => LET payload == arrivals[debouncedMessage]
               id == MappedId(payload)
               velocity == payload[3]
           IN  /\ id \in DOMAIN state'
               /\ 2 * Abs(127 * state'[id] - 1000 * velocity) <= 127
               /\ velocity = 127 => state'[id] = 1000
               /\ velocity = 64 => state'[id] = 504
               /\ (payload = <<176, 13, 127>>) => (id = "C26")]_vars

\* (176, 13, 64) was processed with no transformer: C26 = 0.504
C10_Witness ==
    /\ valueTransformers = <<>>
    /\ Len(delivered) = 1
    /\ arrivals = <<<<176, 13, 64>>>>
    /\ state = ("C26" :> 504)

(***************************************************************************)
(* C11: the shipped profile maps (status, data1) pairs one-to-one onto the *)
(* 33 identifiers C10..C33, F1..F8 and F9: no identifier is produced by    *)
(* two different pairs, so the messages processed so far have set as many  *)
(* controller keys as they have distinct mapped pairs, all of them among   *)
(* the 33 identifiers.                                                     *)
(***************************************************************************)
Identifiers ==
    {"C10", "C11", "C12", "C13", "C14", "C15", "C16", "C17",
     "C18", "C19", "C20", "C21", "C22", "C23", "C24", "C25",
     "C26", "C27", "C28", "C29", "C30", "C31", "C32", "C33",
     "F1", "F2", "F3", "F4", "F5", "F6", "F7", "F8", "F9"}

\* the mapped (status, data1) pairs among the messages processed so far
ProcessedPairs ==
    { <<arrivals[delivered[i].msg][1], arrivals[delivered[i].msg][2]>> :
        i \in { j \in 1..Len(delivered) :
                  MappedId(arrivals[delivered[j].msg]) # NoMapping } }

C11_ProfileOneToOne ==
    /\ DOMAIN state \subseteq Identifiers
    /\ Cardinality(DOMAIN state) = Cardinality(ProcessedPairs)

(***************************************************************************)
(* C12: a transformer configuration with a zero or negative step, or with  *)
(* min >= max, is rejected when the configuration is supplied: no message  *)
(* is ever transformed with such a configuration, so no controller value   *)
(* is ever computed from one.                                              *)
(***************************************************************************)
\* the configurations the claim calls valid; step 0 stands for an absent
\* step, which the transform cannot tell from a step of zero
ValidTransformer(t) == t.min < t.max /\ t.step >= 0

C12_InvalidConfigRejected ==
    \A k \in DOMAIN state \cap DOMAIN valueTransformers :
        ValidTransformer(valueTransformers[k])

(***************************************************************************)
(* C13: for every valid configuration (min < max, any of the three curves, *)
(* step > 0 or absent, invert on or off) and every quantized raw input in  *)
(* [0,1], the transformed value is a function of the configuration and the *)
(* input, lies in [min, max] when no step is configured, and within one    *)
(* step of [min, max] when a step is configured.                           *)
(***************************************************************************)
C13_TransformInRange ==
    \A k \in DOMAIN state \cap DOMAIN valueTransformers :
        LET t == valueTransformers[k]
            raw == rawValueOf(LastPayloadFor(k)[3])
        IN  ValidTransformer(t) =>
                /\ raw \in 0..1000
                /\ state[k] = transformValue(valueTransformers, k, raw)
                /\ t.step = 0 =>
                       /\ t.min * 1000 <= state[k]
                       /\ state[k] <= t.max * 1000
                /\ t.step > 0 =>
                       /\ t.min * 1000 - t.step <= state[k]
                       /\ state[k] <= t.max * 1000 + t.step

\* velocity 127 through the logarithmic curve onto [0, 2] with step 0.7:
\* 2.0 is rounded to 3 steps, 2.1, above max and within one step of it
C13_Witness ==
    /\ valueTransformers = ("C26" :> Transformer(0, 2, "logarithmic", 700, FALSE))
    /\ Len(delivered) = 1
    /\ arrivals = <<<<176, 13, 127>>>>
    /\ state = ("C26" :> 2100)

(***************************************************************************)
(* C14: teardown is idempotent: a teardown that runs after the first one   *)
(* leaves the session as the first one left it, with the handler of every  *)
(* input port cleared, and no message callback is delivered once the first *)
(* teardown has completed.                                                 *)
(***************************************************************************)
\* this step is a run of the cleanup of the initialisation effect
TearingDown == teardowns' = teardowns + 1

C14_TeardownIdempotent ==
    [][unmounted =>
          /\ arrivals' = arrivals
          /\ TearingDown =>
                 /\ onmidimessage = {}
                 /\ onmidimessage' = onmidimessage
                 /\ midiMessage' = midiMessage
                 /\ status' = status
                 /\ connectedDevices' = connectedDevices
                 /\ state' = state]_vars

(***************************************************************************)
(* C15: the reducer update for a processed message changes only the entry  *)
(* of that message's controller: every other key keeps its value, no key   *)
(* is dropped, and the state object handed out before the update is left   *)
(* as it was, the new state being a new object.                            *)
(***************************************************************************)
C15_UpdateTouchesOneEntry ==
    [][(Delivering /\ MappedId(arrivals[debouncedMessage]) # NoMapping)
        => LET id == MappedId(arrivals[debouncedMessage])
           IN  /\ DOMAIN state' = DOMAIN state \cup {id}
               /\ \A k \in DOMAIN state \ {id} : state'[k] = state[k]
               /\ previousState' = state]_vars

\* C33 was set after C26: the new state has both, the object handed out
\* before the second update still has C26 alone
C15_Witness ==
    /\ Len(delivered) = 2
    /\ DOMAIN previousState = {"C26"}
    /\ DOMAIN state = {"C26", "C33"}
    /\ state["C26"] = previousState["C26"]

(***************************************************************************)
(* C16: each delivered message causes exactly one state update: the        *)
(* processing effect dispatches once for a delivered mapped message and    *)
(* does not run again for the same message on a re-render or on a change   *)
(* of identity of controllers or transformValue, in the verbose variant    *)
(* with valueTransformers omitted as well.                                 *)
(***************************************************************************)
C16_OneDispatchPerMessage == dispatches <= 1

(***************************************************************************)
(* C17: while the session is live, every input device listed in            *)
(* connectedDevices has the session's message handler subscribed, devices  *)
(* plugged in after access was granted included.                           *)
(***************************************************************************)
C17_ListedDevicesSubscribed ==
    (access = "granted" /\ ~unmounted) =>
        \A i \in 1..Len(connectedDevices) :
            connectedDevices[i].id \in onmidimessage

(***************************************************************************)
(* C18: after teardown no hardware event changes the session's outputs: a  *)
(* port state-change notification handled after teardown updates neither   *)
(* status nor connectedDevices, and no pending debounced message is        *)
(* applied to the controller state.                                        *)
(***************************************************************************)
C18_NoOutputChangeAfterTeardown ==
    [][unmounted =>
          /\ state' = state
          /\ HandlingStateChange =>
                 /\ status' = status
                 /\ connectedDevices' = connectedDevices]_vars

====
